---- MODULE Spec2Model ----
(***************************************************************************)
(* TaskForge: the local task store (storage.py, models.py), the CLI        *)
(* commands that drive it (taskforge.py) and the Rubis sync reconciler     *)
(* (rubis_sync.py, rubis_client.py).                                       *)
(*                                                                         *)
(* Time is a millisecond clock `now`.  A datetime is a natural number of   *)
(* milliseconds, None is NoTime.  On disk a datetime is its ISO string,    *)
(* modelled as the tagged tuple <<"iso", t>>, and null is <<"null">>.      *)
(***************************************************************************)
EXTENDS Integers, Sequences, FiniteSets, TLC

VARIABLES
    now,            \* wall clock, in milliseconds
    tasks,          \* TaskStorage.tasks: id -> Task
    archived_tasks, \* TaskStorage.archived_tasks: id -> Task
    storage_file,   \* content of data/tasks.json
    archive_file,   \* content of data/archived_tasks.json
    pc,             \* position of the running store call
    ret,            \* the last finished call: its name, argument and outcome
    faults,         \* history: 1 once a file write has failed, else 0
    minted,         \* history: ids produced so far by Task.id's default factory
    calls,          \* history: number of calls made so far
    sync_info,      \* TaskForgeRubisSync.sync_info
    sync_file,      \* content of rubis_sync.json
    spc,            \* position of the running reconciler call
    sret            \* the last finished reconciler call and what it returned

storeVars == <<tasks, archived_tasks, storage_file, archive_file, pc, ret, minted>>

syncVars == <<sync_info, sync_file, spc, sret>>

vars == <<now, faults, calls, storeVars, syncVars>>

---------------------------------------------------------------------------
(* Bounds of the model *)

MaxClock == 2
MaxCalls == 2

---------------------------------------------------------------------------
(* Values *)

NoTime == -1
NoId == -1

MsPerSec == 1000

Titles == {"Buy milk", "Call mom"}
Priorities == {"low", "medium", "high", "urgent"}
AddPriorities == {"medium"}
BadPriority == "bogus"

Times == 0..MaxClock
DueInputs == {NoTime, 0}
SnoozeDeltas == {1}

\* Task.id's default factory: the second-resolution timestamp followed by the
\* millisecond part of the clock.
GenId(t) == (t \div MsPerSec) * MsPerSec + (t % MsPerSec)

\* Task(...) with the model's defaults.
Task(id, title, priority, due_date) ==
    [id |-> id, title |-> title, priority |-> priority, due_date |-> due_date,
     completed |-> FALSE, completed_at |-> NoTime,
     archived |-> FALSE, archived_at |-> NoTime]

complete(t, at) == [t EXCEPT !.completed = TRUE, !.completed_at = at]

uncomplete(t) == [t EXCEPT !.completed = FALSE, !.completed_at = NoTime]

archive(t, at) == [t EXCEPT !.archived = TRUE, !.archived_at = at]

restore(t) == [t EXCEPT !.archived = FALSE, !.archived_at = NoTime]

---------------------------------------------------------------------------
(* Mappings and files *)

EmptyMap == [k \in {} |-> 0]

Values(m) == {m[k] : k \in DOMAIN m}

Put(m, k, v) == [x \in DOMAIN m \cup {k} |-> IF x = k THEN v ELSE m[x]]

Del(m, k) == [x \in DOMAIN m \ {k} |-> m[x]]

Min(S) == CHOOSE x \in S : \A y \in S : x <= y

Max(a, b) == IF a >= b THEN a ELSE b

\* list(m.values()): the values of a mapping as a sequence (listed by key).
RECURSIVE ValueList(_)
ValueList(m) ==
    IF DOMAIN m = {} THEN <<>>
    ELSE LET k == Min(DOMAIN m) IN <<m[k]>> \o ValueList(Del(m, k))

Iso(t) == <<"iso", t>>
JsonNull == <<"null">>
FromIso(s) == s[2]
IsIso(s) == Len(s) = 2 /\ s[1] = "iso"

OptIso(t) == IF t = NoTime THEN JsonNull ELSE Iso(t)

serialize_task(t) ==
    [id |-> t.id, title |-> t.title, priority |-> t.priority,
     due_date |-> OptIso(t.due_date),
     completed |-> t.completed, completed_at |-> OptIso(t.completed_at),
     archived |-> t.archived, archived_at |-> OptIso(t.archived_at)]

\* A record of a task file parses when every non-null date is an ISO string and
\* the priority is one of the enum's values.
Parses(r) ==
    /\ r.priority \in Priorities
    /\ \A d \in {r.due_date, r.completed_at, r.archived_at} : d = JsonNull \/ IsIso(d)

ParseOpt(d) == IF d = JsonNull THEN NoTime ELSE FromIso(d)

ParseTask(r) ==
    [id |-> r.id, title |-> r.title, priority |-> r.priority,
     due_date |-> ParseOpt(r.due_date),
     completed |-> r.completed, completed_at |-> ParseOpt(r.completed_at),
     archived |-> r.archived, archived_at |-> ParseOpt(r.archived_at)]

\* A file is absent, a JSON array of records, or bytes that are not JSON.
AbsentFile == [state |-> "absent", recs |-> <<>>]
GarbageFile == [state |-> "garbage", recs |-> <<>>]
JsonFile(recs) == [state |-> "json", recs |-> recs]

MapSeq(f(_), s) == [i \in DOMAIN s |-> f(s[i])]

Written(m) == JsonFile(MapSeq(serialize_task, ValueList(m)))

\* The tasks a file holds, when it can be read back.
FileTasks(f) ==
    IF f.state = "json"
    THEN {ParseTask(f.recs[i]) : i \in {j \in DOMAIN f.recs : Parses(f.recs[j])}}
    ELSE {}

FileIds(f) == {t.id : t \in FileTasks(f)}

\* TaskStorage.load_tasks / load_archived_tasks: the records are put into the
\* mapping one at a time, and the first exception ends the loop.
RECURSIVE LoadRecs(_, _)
LoadRecs(m, recs) ==
    IF recs = <<>> THEN m
    ELSE IF ~Parses(Head(recs)) THEN m
    ELSE LET t == ParseTask(Head(recs)) IN LoadRecs(Put(m, t.id, t), Tail(recs))

load_tasks(m, f) ==
    IF f.state = "json" THEN LoadRecs(m, f.recs) ELSE m

\* Outcomes of one flush: written; open() fails and the file is untouched; the
\* write fails after open() truncated the file.
WriteOutcomes == {"ok", "open_failed", "write_failed"}

\* A flush that leaves the file as it was.
SaveSkipped(m, f, w) == f

\* A flush that opens the file for appending: the records of the mapping are
\* added after the records the file already had.
SaveAppends(m, f, w) ==
    CASE w = "ok" -> IF f.state = "json" THEN JsonFile(f.recs \o Written(m).recs)
                     ELSE Written(m)
      [] w = "open_failed" -> f
      [] w = "write_failed" -> GarbageFile

\* save_tasks and save_archived_tasks: open(file, "w") and json.dump, inside a
\* try whose handler prints the error.
save_tasks(m, f, w) ==
    CASE w = "ok" -> Written(m)
      [] w = "open_failed" -> f
      [] w = "write_failed" -> GarbageFile

Failed(w) == IF w = "ok" THEN 0 ELSE 1

\* The file holds exactly the tasks of the mapping.
Holds(f, m) ==
    /\ f.state # "garbage"
    /\ FileTasks(f) = Values(m)
    /\ Len(f.recs) = Cardinality(DOMAIN m)

InSync == Holds(storage_file, tasks) /\ Holds(archive_file, archived_tasks)

---------------------------------------------------------------------------
(* The reconciler: rubis_sync.py over rubis_client.py *)

None == "None"
NoUrl == <<>>

ScrapIds == {"scrap1", "scrap2"}
OwnerKey == "owner1"
OfflineOwnerKey == "generated_offline_key"
FallbackOwnerKey == "fallback32"
AccessKeys == {"access16"}

ViewUrl(id) == <<"view", id>>
RawUrl(id) == <<"raw", id>>
ViewUrlWithKey(id, key) == <<"view", id, key>>
RawUrlWithKey(id, key) == <<"raw", id, key>>

\* current_scrap; a key the dict lacks reads as None, as dict.get does.
Scrap(id, owner_key, access_key, url, raw_url, time) ==
    [id |-> id, owner_key |-> owner_key, access_key |-> access_key,
     url |-> url, raw_url |-> raw_url, time |-> time]

NoScrap == Scrap(None, None, None, NoUrl, NoUrl, NoTime)

DefaultSyncInfo == [last_sync |-> NoTime, current_scrap |-> NoScrap, history |-> <<>>]

\* The dict a sync call returns.
Returned(id, url, raw_url, owner_key, access_key) ==
    [id |-> id, url |-> url, raw_url |-> raw_url, owner_key |-> owner_key,
     access_key |-> access_key]

NoReturned == Returned(None, NoUrl, NoUrl, None, None)

HistoryCap == 10
RequestTimeout == 10
NoTimeout == 0

SIdle == [at |-> "idle", op |-> "none", public |-> FALSE, access_key |-> None,
          timeout |-> NoTimeout]

NoSRet == [op |-> "none", result |-> "none", record |-> NoReturned, tasks |-> <<>>]

SRet(op, result, record, ts) == [op |-> op, result |-> result, record |-> record, tasks |-> ts]

Take(s, n) == SubSeq(s, 1, IF Len(s) < n THEN Len(s) ELSE n)

\* What the remote client call ends in: a response that parses to a JSON
\* object; a requests.RequestException (connection error, timeout, HTTP error
\* status), which create_scrap and replace_scrap_content turn into a dict with
\* "error"; any other exception, which they let through.
ClientOutcomes == {"ok", "request_exception", "other_exception"}

\* rubis_sync.json: absent, a JSON object, or bytes that are not JSON.
AbsentSyncFile == [state |-> "absent", info |-> DefaultSyncInfo]
GarbageSyncFile == [state |-> "garbage", info |-> DefaultSyncInfo]
JsonSyncFile(info) == [state |-> "json", info |-> info]

\* _load_sync_info
_load_sync_info(f) == IF f.state = "json" THEN f.info ELSE DefaultSyncInfo

\* A save that leaves the metadata file as it was.
SaveSyncSkipped(info, f, w) == f

\* _save_sync_info: open(...,"w") then json.dump, with no handler: the file it
\* leaves.  It raises exactly when the outcome of the write is not "ok".
_save_sync_info(info, f, w) ==
    CASE w = "ok" -> JsonSyncFile(info)
      [] w = "open_failed" -> f
      [] w = "write_failed" -> GarbageSyncFile

\* The reconciler of a run of the store: nothing synced yet, no call made.
InitSyncVars ==
    /\ sync_file = AbsentSyncFile
    /\ sync_info = _load_sync_info(sync_file)
    /\ spc = SIdle
    /\ sret = NoSRet

---------------------------------------------------------------------------
(* The store and the CLI commands *)

PayloadIds == {0, 9}

Ids == {GenId(t) : t \in Times} \cup PayloadIds

Idle == [at |-> "idle", id |-> NoId, flushed |-> TRUE]

NoRet == [op |-> "none", id |-> NoId, result |-> "none"]

Ret(op, id, result) == [op |-> op, id |-> id, result |-> result]

\* The stores a process can start from: a first run with no files, or the
\* files an earlier run left, loaded by TaskStorage.__init__.  The task with
\* id 0 was created at time 0, before this run.
OldTask == Task(GenId(0), "Buy milk", "medium", NoTime)

StartStores ==
    { [active |-> EmptyMap, archived |-> EmptyMap],
      [active |-> Put(EmptyMap, OldTask.id, OldTask), archived |-> EmptyMap],
      [active |-> EmptyMap, archived |-> Put(EmptyMap, OldTask.id, archive(OldTask, 0))] }

StartFile(m) == IF DOMAIN m = {} THEN AbsentFile ELSE Written(m)

Init ==
    /\ now = 1
    /\ \E s \in StartStores :
        /\ storage_file = StartFile(s.active)
        /\ archive_file = StartFile(s.archived)
        /\ tasks = load_tasks(EmptyMap, storage_file)
        /\ archived_tasks = load_tasks(EmptyMap, archive_file)
    /\ pc = Idle
    /\ ret = NoRet
    /\ faults = 0
    /\ minted = {}
    /\ calls = 0
    /\ InitSyncVars

Tick ==
    /\ pc = Idle
    /\ now < MaxClock
    /\ now' = now + 1
    /\ ret' = NoRet
    /\ UNCHANGED <<tasks, archived_tasks, storage_file, archive_file, pc, faults,
                   minted, calls>>
    /\ UNCHANGED syncVars

\* TaskStorage.add_task
StoreAdd(t, w) ==
    /\ tasks' = Put(tasks, t.id, t)
    /\ storage_file' = save_tasks(tasks', storage_file, w)
    /\ faults' = Max(faults, Failed(w))

\* TaskStorage.update_task, on a key of the mapping
StoreUpdate(id, t, w) ==
    /\ tasks' = Put(tasks, id, t)
    /\ storage_file' = save_tasks(tasks', storage_file, w)
    /\ faults' = Max(faults, Failed(w))

\* A call that flushes the active mapping before it looks the id up.
NotFoundAfterFlush(op, id) ==
    /\ ret' = Ret(op, id, "not_found")
    /\ storage_file' = Written(tasks)
    /\ UNCHANGED <<tasks, faults>>

\* `if task_id not in self.tasks: return None` (return False, in delete_task),
\* `if not task: return None`: the call returns before it changes anything.
NotFound(op, id) ==
    /\ ret' = Ret(op, id, "not_found")
    /\ UNCHANGED <<tasks, storage_file, faults>>

\* The add command: Task(...) with a default id, then storage.add_task.
add_task ==
    /\ pc = Idle
    /\ calls < MaxCalls
    /\ calls' = calls + 1
    /\ \E title \in Titles, priority \in AddPriorities, due \in DueInputs,
          w \in WriteOutcomes :
        LET t == Task(GenId(now), title, priority, due) IN
        /\ StoreAdd(t, w)
        /\ minted' = minted \cup {t.id}
        /\ ret' = Ret("add", t.id, "ok")
    /\ UNCHANGED <<now, archived_tasks, archive_file, pc>>
    /\ UNCHANGED syncVars

\* storage.update_task(id, task), the caller having edited the title of the
\* task it got from the store.
update_task ==
    /\ pc = Idle
    /\ calls < MaxCalls
    /\ calls' = calls + 1
    /\ \E id \in Ids, title \in Titles, w \in WriteOutcomes :
        IF id \notin DOMAIN tasks
        THEN NotFound("update", id)
        ELSE /\ StoreUpdate(id, [tasks[id] EXCEPT !.title = title], w)
             /\ ret' = Ret("update", id, "ok")
    /\ UNCHANGED <<now, archived_tasks, archive_file, pc, minted>>
    /\ UNCHANGED syncVars

delete_task ==
    /\ pc = Idle
    /\ calls < MaxCalls
    /\ calls' = calls + 1
    /\ \E id \in Ids, w \in WriteOutcomes :
        IF id \notin DOMAIN tasks
        THEN NotFound("delete", id)
        ELSE /\ tasks' = Del(tasks, id)
             /\ storage_file' = save_tasks(tasks', storage_file, w)
             /\ faults' = Max(faults, Failed(w))
             /\ ret' = Ret("delete", id, "ok")
    /\ UNCHANGED <<now, archived_tasks, archive_file, pc, minted>>
    /\ UNCHANGED syncVars

\* The two mappings of the store.
Stores == [active |-> tasks, archived |-> archived_tasks]

\* archive_task on a key of the active mapping: task.archive(), then the task
\* is put under its key in the archived mapping and deleted from the active one.
ArchiveMove(s, id, at) ==
    [active |-> Del(s.active, id),
     archived |-> Put(s.archived, id, archive(s.active[id], at))]

\* A restore that does not delete the key from the archived mapping.
RestoreKeepsArchived(s, id) ==
    [active |-> Put(s.active, id, restore(s.archived[id])),
     archived |-> s.archived]

\* restore_task on a key of the archived mapping: task.restore(), then the task
\* is put under its key in the active mapping and deleted from the archived one.
RestoreMove(s, id) ==
    [active |-> Put(s.active, id, restore(s.archived[id])),
     archived |-> Del(s.archived, id)]

\* TaskStorage.archive_task, up to and including its first flush (save_tasks).
archive_task ==
    /\ pc = Idle
    /\ calls < MaxCalls
    /\ calls' = calls + 1
    /\ \E id \in Ids, w \in WriteOutcomes :
        IF id \notin DOMAIN tasks
        THEN /\ NotFound("archive", id)
             /\ UNCHANGED <<archived_tasks, pc>>
        ELSE /\ archived_tasks' = ArchiveMove(Stores, id, now).archived
             /\ tasks' = ArchiveMove(Stores, id, now).active
             /\ storage_file' = save_tasks(tasks', storage_file, w)
             /\ faults' = Max(faults, Failed(w))
             /\ pc' = [at |-> "archive_flush", id |-> id, flushed |-> InSync]
             /\ ret' = Ret("archive", id, "running")
    /\ UNCHANGED <<now, archive_file, minted>>
    /\ UNCHANGED syncVars

\* TaskStorage.restore_task, up to and including its first flush (save_tasks).
restore_task ==
    /\ pc = Idle
    /\ calls < MaxCalls
    /\ calls' = calls + 1
    /\ \E id \in Ids, w \in WriteOutcomes :
        IF id \notin DOMAIN archived_tasks
        THEN /\ NotFound("restore", id)
             /\ UNCHANGED <<archived_tasks, pc>>
        ELSE /\ tasks' = RestoreMove(Stores, id).active
             /\ archived_tasks' = RestoreMove(Stores, id).archived
             /\ storage_file' = save_tasks(tasks', storage_file, w)
             /\ faults' = Max(faults, Failed(w))
             /\ pc' = [at |-> "restore_flush", id |-> id, flushed |-> InSync]
             /\ ret' = Ret("restore", id, "running")
    /\ UNCHANGED <<now, archive_file, minted>>
    /\ UNCHANGED syncVars

\* The second flush of archive_task and of restore_task (save_archived_tasks),
\* after which the call returns the task.
save_archived_tasks ==
    /\ pc.at \in {"archive_flush", "restore_flush"}
    /\ \E w \in WriteOutcomes :
        /\ archive_file' = save_tasks(archived_tasks, archive_file, w)
        /\ faults' = Max(faults, Failed(w))
    /\ ret' = Ret(ret.op, pc.id, "ok")
    /\ pc' = Idle
    /\ UNCHANGED <<now, tasks, archived_tasks, storage_file, minted, calls>>
    /\ UNCHANGED syncVars

\* TaskStorage.copy_task: a new Task from the source's fields without its id.
CopyOf(src, id, due_date) ==
    [src EXCEPT !.id = id,
                !.completed = FALSE, !.completed_at = NoTime,
                !.archived = FALSE, !.archived_at = NoTime,
                !.due_date = IF due_date # NoTime THEN due_date ELSE @]

copy_task ==
    /\ pc = Idle
    /\ calls < MaxCalls
    /\ calls' = calls + 1
    /\ \E id \in Ids, due \in DueInputs, w \in WriteOutcomes :
        IF id \notin DOMAIN tasks
        THEN /\ NotFound("copy", id)
             /\ UNCHANGED minted
        ELSE LET t == CopyOf(tasks[id], GenId(now), due) IN
             /\ StoreAdd(t, w)
             /\ minted' = minted \cup {t.id}
             /\ ret' = Ret("copy", t.id, "ok")
    /\ UNCHANGED <<now, archived_tasks, archive_file, pc>>
    /\ UNCHANGED syncVars

\* A snooze that counts from the current time whatever the due date was.
SnoozedFromNow(t, delta) == [t EXCEPT !.due_date = now + delta]

\* TaskStorage.snooze_task
Snoozed(t, delta) ==
    [t EXCEPT !.due_date = (IF @ = NoTime THEN now ELSE @) + delta]

snooze_task ==
    /\ pc = Idle
    /\ calls < MaxCalls
    /\ calls' = calls + 1
    /\ \E id \in Ids, delta \in SnoozeDeltas, w \in WriteOutcomes :
        IF id \notin DOMAIN tasks
        THEN NotFound("snooze", id)
        ELSE /\ Snoozed(tasks[id], delta).due_date <= MaxClock + 1
             /\ StoreUpdate(id, Snoozed(tasks[id], delta), w)
             /\ ret' = Ret("snooze", id, "ok")
    /\ UNCHANGED <<now, archived_tasks, archive_file, pc, minted>>
    /\ UNCHANGED syncVars

\* The complete and uncomplete commands.  The task object held by the mapping is
\* changed in place, then storage.update_task(task) is called with one argument
\* where update_task(task_id, task) takes two: the call raises TypeError before
\* update_task's body runs, and the command has no handler for it.
CompleteCmd(id, done) ==
    IF id \notin DOMAIN tasks
    THEN /\ ret' = Ret(IF done THEN "complete" ELSE "uncomplete", id, "not_found")
         /\ UNCHANGED tasks
    ELSE IF tasks[id].completed = done
    THEN /\ ret' = Ret(IF done THEN "complete" ELSE "uncomplete", id, "already")
         /\ UNCHANGED tasks
    ELSE /\ tasks' = Put(tasks, id, IF done THEN complete(tasks[id], now)
                                           ELSE uncomplete(tasks[id]))
         /\ ret' = Ret(IF done THEN "complete" ELSE "uncomplete", id, "raised")

complete_task ==
    /\ pc = Idle
    /\ calls < MaxCalls
    /\ calls' = calls + 1
    /\ \E id \in Ids : CompleteCmd(id, TRUE)
    /\ UNCHANGED <<now, archived_tasks, storage_file, archive_file, pc, faults,
                   minted>>
    /\ UNCHANGED syncVars

uncomplete_task ==
    /\ pc = Idle
    /\ calls < MaxCalls
    /\ calls' = calls + 1
    /\ \E id \in Ids : CompleteCmd(id, FALSE)
    /\ UNCHANGED <<now, archived_tasks, storage_file, archive_file, pc, faults,
                   minted>>
    /\ UNCHANGED syncVars

\* What get_tasks_from_scrap hands to the sync import command: the tasks of a
\* remote payload, each with the id the payload gives it; or nothing, when the
\* fetch or the parse failed.
PayloadTasks == {Task(id, title, "medium", NoTime) : id \in PayloadIds, title \in Titles}

PayloadLens == 0..2

Payloads == UNION {[1..k -> PayloadTasks] : k \in PayloadLens}

\* A merge that keeps both tasks when the first imported id is taken: the
\* imported one goes in under the next free id.
MergeKeepsBoth(m, f, I, outs) ==
    IF I = <<>> THEN [m |-> m, f |-> f, n |-> 0]
    ELSE LET t == Head(I)
             free == Max(t.id, Cardinality(DOMAIN m) + t.id) + 1
         IN [m |-> IF t.id \in DOMAIN m THEN Put(m, free, [t EXCEPT !.id = free])
                   ELSE Put(m, t.id, t),
             f |-> f, n |-> 0]

\* A merge in which the imported task replaces the local one of the same id.
MergeOverwrites(m, f, I, outs) ==
    [m |-> [k \in DOMAIN m \cup {I[i].id : i \in DOMAIN I} |->
               IF \E i \in DOMAIN I : I[i].id = k
               THEN I[CHOOSE i \in DOMAIN I : I[i].id = k]
               ELSE m[k]],
     f |-> f, n |-> 0]

\* import_sync, --merge: for task in imported_tasks: if not storage.get_task(task.id):
\* storage.add_task(task).  outs[i] is the outcome of the flush of the i-th add.
\* The result is the mapping, the file and whether a flush failed (1 or 0).
RECURSIVE MergeLoop(_, _, _, _)
MergeLoop(m, f, I, outs) ==
    IF I = <<>> THEN [m |-> m, f |-> f, n |-> 0]
    ELSE LET t == Head(I) IN
         IF t.id \in DOMAIN m
         THEN MergeLoop(m, f, Tail(I), Tail(outs))
         ELSE LET m2 == Put(m, t.id, t)
                  r == MergeLoop(m2, save_tasks(m2, f, Head(outs)), Tail(I), Tail(outs))
              IN [r EXCEPT !.n = Max(@, Failed(Head(outs)))]

\* A replace in which the first task of an id wins.
DictOfFirstWins(m, I) ==
    [k \in {I[i].id : i \in DOMAIN I} |->
        I[CHOOSE i \in DOMAIN I : I[i].id = k /\ \A j \in 1..(i - 1) : I[j].id # k]]

\* import_sync, replace: {task.id: task for task in imported_tasks}
RECURSIVE DictOf(_, _)
\* A replace that keys the imported tasks by their position in the payload.
DictByPosition(m, I) == [i \in DOMAIN m \cup DOMAIN I |-> IF i \in DOMAIN I THEN I[i] ELSE m[i]]

DictOf(m, I) ==
    IF I = <<>> THEN m ELSE DictOf(Put(m, Head(I).id, Head(I)), Tail(I))

ImportName(merge) == IF merge THEN "import_merge" ELSE "import_replace"

\* An import that does not stop at an empty result.
ImportSyncUnguarded(I, merge, confirm) ==
    /\ tasks' = DictOf(EmptyMap, I)
    /\ storage_file' = save_tasks(tasks', storage_file, "ok")
    /\ ret' = Ret(ImportName(merge), NoId, IF I = <<>> THEN "no_tasks" ELSE "ok")
    /\ UNCHANGED faults

\* The sync import command, from the return of get_tasks_from_scrap on, given
\* the tasks I it returned, the --merge flag and the user's confirmation.
ImportSync(I, merge, confirm) ==
    IF I = <<>>
    THEN /\ ret' = Ret(ImportName(merge), NoId, "no_tasks")
         /\ UNCHANGED <<tasks, storage_file, faults>>
    ELSE IF ~confirm
    THEN /\ ret' = Ret(ImportName(merge), NoId, "cancelled")
         /\ UNCHANGED <<tasks, storage_file, faults>>
    ELSE IF merge
    THEN \E w \in WriteOutcomes, outs \in [1..Len(I) -> WriteOutcomes] :
            LET r == MergeLoop(tasks, storage_file, I, outs) IN
            /\ tasks' = r.m
            /\ storage_file' = save_tasks(r.m, r.f, w)
            /\ faults' = Max(faults, Max(r.n, Failed(w)))
            /\ ret' = Ret(ImportName(merge), NoId, "ok")
    ELSE \E w \in WriteOutcomes :
            /\ tasks' = DictOf(EmptyMap, I)
            /\ storage_file' = save_tasks(tasks', storage_file, w)
            /\ faults' = Max(faults, Failed(w))
            /\ ret' = Ret(ImportName(merge), NoId, "ok")

import_sync ==
    /\ pc = Idle
    /\ calls < MaxCalls
    /\ calls' = calls + 1
    /\ \E I \in Payloads, merge \in BOOLEAN, confirm \in BOOLEAN :
        ImportSync(I, merge, confirm)
    /\ UNCHANGED <<now, archived_tasks, archive_file, pc, minted>>
    /\ UNCHANGED syncVars

Next ==
    \/ Tick
    \/ add_task
    \/ update_task
    \/ delete_task
    \/ archive_task
    \/ restore_task
    \/ save_archived_tasks
    \/ copy_task
    \/ snooze_task
    \/ complete_task
    \/ uncomplete_task
    \/ import_sync

Spec == Init /\ [][Next]_vars

---------------------------------------------------------------------------
(* The reconciler's calls.  A call that waits for the remote service stays at
   its wait position until the service answers or the request's timeout
   expires; a request sent without a timeout waits for as long as the service
   stays silent. *)

MaxSyncCalls == 3

OldScrap ==
    Scrap("scrap1", OwnerKey, "access16", ViewUrlWithKey("scrap1", "access16"),
          RawUrlWithKey("scrap1", "access16"), 0)

\* The metadata files a process can start from: none, the file an earlier sync
\* left, or an unreadable one.
StartSyncFiles ==
    { AbsentSyncFile,
      JsonSyncFile([last_sync |-> 0, current_scrap |-> OldScrap, history |-> <<OldScrap>>]),
      GarbageSyncFile }

InitSync ==
    /\ now = 1
    /\ storage_file = Written(Put(EmptyMap, OldTask.id, OldTask))
    /\ archive_file = AbsentFile
    /\ tasks = load_tasks(EmptyMap, storage_file)
    /\ archived_tasks = load_tasks(EmptyMap, archive_file)
    /\ pc = Idle
    /\ ret = NoRet
    /\ faults = 0
    /\ minted = {}
    /\ calls = 0
    /\ sync_file \in StartSyncFiles
    /\ sync_info = _load_sync_info(sync_file)
    /\ spc = SIdle
    /\ sret = NoSRet

StoreUntouched == UNCHANGED <<now, storeVars>>

\* A call that sends the replace once more instead of a create.
ResendReplace(op, public) ==
    spc' = [at |-> "replace_wait", op |-> op, public |-> public,
            access_key |-> None, timeout |-> RequestTimeout]

\* sync_to_rubis up to client.create_scrap's POST, sent with timeout=10.
SendCreate(op, public) ==
    \E key \in AccessKeys :
        spc' = [at |-> "create_wait", op |-> op, public |-> public,
                access_key |-> IF public THEN None ELSE key,
                timeout |-> RequestTimeout]

\* The dict sync_to_rubis's handler returns.
FallbackReturned(access_key) == Returned(None, NoUrl, NoUrl, FallbackOwnerKey, access_key)

ReturnedOf(rec) == Returned(rec.id, rec.url, rec.raw_url, rec.owner_key, rec.access_key)

\* A record that takes no owner key from a failed create.
CreatedScrapNoKey(o, id, public, access_key) ==
    IF o = "request_exception"
    THEN Scrap(None, None, access_key, NoUrl, NoUrl, now)
    ELSE Scrap(id, OwnerKey, access_key, ViewUrlWithKey(id, access_key),
               RawUrlWithKey(id, access_key), now)

\* The record sync_to_rubis builds from create_scrap's result.
CreatedScrap(o, id, public, access_key) ==
    IF o = "request_exception"
    THEN Scrap(None, OfflineOwnerKey, access_key, NoUrl, NoUrl, now)
    ELSE IF public
    THEN Scrap(id, OwnerKey, access_key, ViewUrl(id), RawUrl(id), now)
    ELSE Scrap(id, OwnerKey, access_key, ViewUrlWithKey(id, access_key),
               RawUrlWithKey(id, access_key), now)

\* A history that is never cut.
PrependedUncapped(rec, history) == <<rec>> \o history

\* A history that takes the new record at its end.
AppendedToHistory(rec, history) == Take(history \o <<rec>>, HistoryCap)

\* history.insert(0, current_scrap); history = history[:10]
Prepended(rec, history) == Take(<<rec>> \o history, HistoryCap)

\* sync_to_rubis from create_scrap's return on: o is how the client call ended,
\* id the scrapID of the response, w the outcome of writing the metadata file.
CreateDone(o, id, w) ==
    /\ spc.at = "create_wait"
    /\ IF o = "other_exception"
       THEN /\ sret' = SRet(spc.op, "returned", FallbackReturned(spc.access_key), <<>>)
            /\ UNCHANGED <<sync_info, sync_file, faults>>
       ELSE LET rec == CreatedScrap(o, id, spc.public, spc.access_key) IN
            /\ sync_info' = [last_sync |-> now, current_scrap |-> rec,
                             history |-> Prepended(rec, sync_info.history)]
            /\ sync_file' = _save_sync_info(sync_info', sync_file, w)
            /\ faults' = Max(faults, Failed(w))
            /\ sret' = SRet(spc.op, "returned",
                            IF w = "ok" THEN ReturnedOf(rec)
                            ELSE FallbackReturned(spc.access_key), <<>>)
    /\ spc' = SIdle

\* Urls that a failed replace sets to None, as a failed create does.
ReplacedUrlsNulled(o, current) ==
    IF o = "request_exception"
    THEN [url |-> NoUrl, raw_url |-> NoUrl]
    ELSE [url |-> ViewUrlWithKey(current.id, current.access_key),
          raw_url |-> RawUrlWithKey(current.id, current.access_key)]

\* The urls update_sync returns: the stored ones when replace_scrap_content
\* reported an error, else those of the response.
ReplacedUrls(o, current) ==
    IF o = "request_exception"
    THEN [url |-> current.url, raw_url |-> current.raw_url]
    ELSE IF current.access_key # None
    THEN [url |-> ViewUrlWithKey(current.id, current.access_key),
          raw_url |-> RawUrlWithKey(current.id, current.access_key)]
    ELSE [url |-> ViewUrl(current.id), raw_url |-> RawUrl(current.id)]

\* An update that records itself in history, as a create does.
RefreshedIntoHistory(info) ==
    [info EXCEPT !.last_sync = now,
                 !.history = Take(<<info.current_scrap>> \o @, HistoryCap)]

\* self.sync_info["last_sync"] = datetime.now().isoformat()
Refreshed(info) == [info EXCEPT !.last_sync = now]

\* update_sync from replace_scrap_content's return on.
ReplaceDone(o, w) ==
    /\ spc.at = "replace_wait"
    /\ IF o = "other_exception"
       THEN /\ SendCreate(spc.op, FALSE)
            /\ UNCHANGED <<sync_info, sync_file, faults, sret>>
       ELSE LET current == sync_info.current_scrap
                urls == ReplacedUrls(o, current)
            IN
            /\ sync_info' = Refreshed(sync_info)
            /\ sync_file' = _save_sync_info(sync_info', sync_file, w)
            /\ faults' = Max(faults, Failed(w))
            /\ IF w = "ok"
               THEN /\ sret' = SRet(spc.op, "returned",
                                    Returned(current.id, urls.url, urls.raw_url,
                                             current.owner_key, current.access_key), <<>>)
                    /\ spc' = SIdle
               ELSE /\ SendCreate(spc.op, FALSE)
                    /\ UNCHANGED sret

FetchedPayloads == {I \in Payloads : Len(I) <= 1}

\* get_tasks_from_scrap from get_raw_scrap_content's return on.
FetchDone(o, I) ==
    /\ spc.at = "fetch_wait"
    /\ sret' = SRet(spc.op, "returned", NoReturned, IF o = "ok" THEN I ELSE <<>>)
    /\ spc' = SIdle
    /\ UNCHANGED <<sync_info, sync_file, faults>>

sync_to_rubis ==
    /\ spc = SIdle
    /\ calls < MaxSyncCalls
    /\ calls' = calls + 1
    /\ \E public \in BOOLEAN : SendCreate("sync_create", public)
    /\ UNCHANGED <<sync_info, sync_file, faults, sret>>
    /\ StoreUntouched

\* update_sync up to the request it sends: a create when there is no current
\* scrap id or owner key, else replace_scrap_content's PUT, sent with timeout=10.
SendUpdate ==
    LET current == sync_info.current_scrap IN
    IF current.id = None \/ current.owner_key = None
    THEN SendCreate("sync_update", FALSE)
    ELSE spc' = [at |-> "replace_wait", op |-> "sync_update", public |-> FALSE,
                 access_key |-> None, timeout |-> RequestTimeout]

update_sync ==
    /\ spc = SIdle
    /\ calls < MaxSyncCalls
    /\ calls' = calls + 1
    /\ SendUpdate
    /\ UNCHANGED <<sync_info, sync_file, faults, sret>>
    /\ StoreUntouched

\* get_tasks_from_scrap up to client.get_raw_scrap_content's GET, which is sent
\* without a timeout.
get_tasks_from_scrap ==
    /\ spc = SIdle
    /\ calls < MaxSyncCalls
    /\ calls' = calls + 1
    /\ spc' = [at |-> "fetch_wait", op |-> "import", public |-> FALSE,
               access_key |-> None, timeout |-> NoTimeout]
    /\ UNCHANGED <<sync_info, sync_file, faults, sret>>
    /\ StoreUntouched

\* The remote service answers the pending request, or the connection fails.
client_returns ==
    /\ \E o \in ClientOutcomes, w \in WriteOutcomes :
        \/ \E id \in ScrapIds : CreateDone(o, id, w)
        \/ ReplaceDone(o, w)
        \/ \E I \in FetchedPayloads : FetchDone(o, I)
    /\ UNCHANGED calls
    /\ StoreUntouched

\* The pending request's timeout expires: requests raises Timeout, a
\* RequestException.
request_times_out ==
    /\ spc.at # "idle"
    /\ spc.timeout # NoTimeout
    /\ \E w \in WriteOutcomes :
        \/ \E id \in ScrapIds : CreateDone("request_exception", id, w)
        \/ ReplaceDone("request_exception", w)
    /\ UNCHANGED calls
    /\ StoreUntouched

clear_sync_info ==
    /\ spc = SIdle
    /\ calls < MaxSyncCalls
    /\ calls' = calls + 1
    /\ \E w \in WriteOutcomes :
        /\ sync_info' = DefaultSyncInfo
        /\ sync_file' = _save_sync_info(sync_info', sync_file, w)
        /\ faults' = Max(faults, Failed(w))
        /\ sret' = SRet("clear", IF w = "ok" THEN "returned" ELSE "raised", NoReturned, <<>>)
    /\ UNCHANGED spc
    /\ StoreUntouched

TickSync ==
    /\ now < MaxClock
    /\ now' = now + 1
    /\ UNCHANGED <<faults, calls, storeVars, syncVars>>

NextSync ==
    \/ TickSync
    \/ sync_to_rubis
    \/ update_sync
    \/ get_tasks_from_scrap
    \/ client_returns
    \/ request_times_out
    \/ clear_sync_info

SpecSync == InitSync /\ [][NextSync]_vars

\* The timeout of a request is a timer of the process: it fires if the request
\* is still pending.  Nothing makes the remote service answer.
FairSpecSync == SpecSync /\ WF_vars(request_times_out)

---------------------------------------------------------------------------
(* The sync import command end to end: it fetches the tasks of the scrap with
   get_tasks_from_scrap and then merges them into, or replaces, the active
   mapping. *)

MaxImports == 1

\* get_tasks_from_scrap has returned and the command has not used its result yet.
ImportPending == spc = SIdle /\ sret.op = "import" /\ sret.result = "returned"

\* taskforge.py import_sync up to its call of get_tasks_from_scrap.
import_sync_fetch ==
    /\ ~ImportPending
    /\ calls < MaxImports
    /\ get_tasks_from_scrap

\* The remote service answers the GET with a payload, or the GET fails.
fetch_returns ==
    /\ \E o \in ClientOutcomes, I \in Payloads : FetchDone(o, I)
    /\ UNCHANGED calls
    /\ StoreUntouched

\* taskforge.py import_sync from the return of get_tasks_from_scrap on.
import_sync_apply ==
    /\ ImportPending
    /\ \E merge \in BOOLEAN, confirm \in BOOLEAN : ImportSync(sret.tasks, merge, confirm)
    /\ sret' = [sret EXCEPT !.result = "imported"]
    /\ UNCHANGED <<now, archived_tasks, archive_file, pc, minted, calls>>
    /\ UNCHANGED <<sync_info, sync_file, spc>>

NextImport ==
    \/ import_sync_fetch
    \/ fetch_returns
    \/ import_sync_apply

SpecImport == Init /\ [][NextImport]_vars

---------------------------------------------------------------------------
(* The reconciler started over the metadata of earlier runs, whose history is
   empty, one short of the cap, or at the cap. *)

OldOfflineScrap == Scrap(None, OfflineOwnerKey, "access16", NoUrl, NoUrl, 0)

\* The history k earlier creates left, the most recent first: online and
\* offline ones in turn.
OldHistory(k) == [i \in 1..k |-> IF i % 2 = 1 THEN OldScrap ELSE OldOfflineScrap]

OldHistoryLens == {HistoryCap - 1, HistoryCap}

StartHistoryFiles ==
    {AbsentSyncFile} \cup
    {JsonSyncFile([last_sync |-> 0, current_scrap |-> OldScrap, history |-> OldHistory(k)]) :
        k \in OldHistoryLens}

InitHistory ==
    /\ now = 1
    /\ storage_file = Written(Put(EmptyMap, OldTask.id, OldTask))
    /\ archive_file = AbsentFile
    /\ tasks = load_tasks(EmptyMap, storage_file)
    /\ archived_tasks = load_tasks(EmptyMap, archive_file)
    /\ pc = Idle
    /\ ret = NoRet
    /\ faults = 0
    /\ minted = {}
    /\ calls = 0
    /\ sync_file \in StartHistoryFiles
    /\ sync_info = _load_sync_info(sync_file)
    /\ spc = SIdle
    /\ sret = NoSRet

SpecHistory == InitHistory /\ [][NextSync]_vars

---------------------------------------------------------------------------
(* Construction of the store over whatever the two task files hold. *)

GoodRecord(id) == serialize_task(Task(id, "Buy milk", "medium", NoTime))

\* Records of a task file: well-formed ones, one whose priority is not a value
\* of the enum (Task(**task_dict) raises ValidationError), one whose due date
\* is not an ISO string (datetime.fromisoformat raises ValueError).
StartupRecords ==
    { GoodRecord(0), GoodRecord(9),
      [GoodRecord(0) EXCEPT !.priority = BadPriority],
      [GoodRecord(9) EXCEPT !.due_date = <<"not a date">>] }

StartupLens == 0..2

StartupFiles ==
    {AbsentFile, GarbageFile} \cup
    {JsonFile(recs) : recs \in UNION {[1..k -> StartupRecords] : k \in StartupLens}}

Constructing == [at |-> "init", id |-> NoId, flushed |-> FALSE]

\* TaskStorage.__init__ before its two loads: both mappings are empty.
InitLoad ==
    /\ now = 1
    /\ storage_file \in StartupFiles
    /\ archive_file \in StartupFiles
    /\ tasks = EmptyMap
    /\ archived_tasks = EmptyMap
    /\ pc = Constructing
    /\ ret = NoRet
    /\ faults = 0
    /\ minted = {}
    /\ calls = 0
    /\ InitSyncVars

\* TaskStorage.__init__: load_tasks(), then load_archived_tasks().  Each catches
\* every exception, so construction always completes.
TaskStorageInit ==
    /\ pc = Constructing
    /\ tasks' = load_tasks(tasks, storage_file)
    /\ archived_tasks' = load_tasks(archived_tasks, archive_file)
    /\ pc' = Idle
    /\ ret' = Ret("init", NoId, "ok")
    /\ UNCHANGED <<now, storage_file, archive_file, faults, minted, calls>>
    /\ UNCHANGED syncVars

NextLoad == TaskStorageInit

SpecLoad == InitLoad /\ [][NextLoad]_vars

\* The file can be deserialized in full: it is absent (nothing to load), or a
\* JSON array all of whose records parse.
FullyDeserializable(f) ==
    \/ f.state = "absent"
    \/ f.state = "json" /\ \A i \in DOMAIN f.recs : Parses(f.recs[i])

----------------------------------------------------------------------------
(* Listing: TaskStorage.list_tasks over stores of up to MaxListed tasks *)

MaxListed == 3
MaxDate == 9999

\* An Optional[bool] argument: <<>> for None, <<b>> for the boolean b.
CompletedFilters == {<<>>, <<TRUE>>, <<FALSE>>}

\* The first component of list_tasks' sort key.
PriorityRank(p) ==
    CASE p = "urgent" -> 0
      [] p = "high" -> 1
      [] p = "medium" -> 2
      [] OTHER -> 3

\* A sort key that puts the tasks without a due date first.
SortKeyNoneFirst(t) == <<PriorityRank(t.priority), t.due_date>>

\* list_tasks' sort key: (rank, due date or datetime.max)
SortKey(t) ==
    <<PriorityRank(t.priority), IF t.due_date # NoTime THEN t.due_date ELSE MaxDate>>

\* Tuple comparison a <= b of two sort keys.
KeyLeq(a, b) == a[1] < b[1] \/ (a[1] = b[1] /\ a[2] <= b[2])

\* sorted(tasks, key=...): a stable sort, by insertion of each element after
\* the elements whose key is not greater.
RECURSIVE InsertSorted(_, _)
InsertSorted(t, s) ==
    IF s = <<>> THEN <<t>>
    ELSE IF KeyLeq(SortKey(Head(s)), SortKey(t))
    THEN <<Head(s)>> \o InsertSorted(t, Tail(s))
    ELSE <<t>> \o s

RECURSIVE sorted(_)
sorted(s) ==
    IF s = <<>> THEN <<>>
    ELSE InsertSorted(s[Len(s)], sorted(SubSeq(s, 1, Len(s) - 1)))

\* `if completed is not None: tasks = [task for task in tasks if ...]`
PassesFilter(t, completed) == completed = <<>> \/ t.completed = completed[1]

\* A listing that adds the archived tasks when show_archived is set.
ListWithArchived(m, completed, show_archived) ==
    sorted(SelectSeq(ValueList(m) \o (IF show_archived THEN ValueList(archived_tasks) ELSE <<>>),
                     LAMBDA t : PassesFilter(t, completed)))

\* TaskStorage.list_tasks: the values of the active mapping, filtered by
\* completion when a filter is given, sorted.  show_archived is not used.
list_tasks(m, completed, show_archived) ==
    sorted(SelectSeq(ValueList(m), LAMBDA t : PassesFilter(t, completed)))

ListedIds == 0..(MaxListed - 1)
ListedDues == {NoTime, 0, 1}
ListedFields == [priority : Priorities, due_date : ListedDues, completed : BOOLEAN]

ListedTask(id, f) ==
    [Task(id, "Buy milk", f.priority, f.due_date)
        EXCEPT !.completed = f.completed,
               !.completed_at = IF f.completed THEN 0 ELSE NoTime]

\* The active mappings a listing is applied to: up to MaxListed tasks created,
\* some completed, in earlier runs.
ListedStores ==
    UNION {{[id \in S |-> ListedTask(id, f[id])] : f \in [S -> ListedFields]} :
           S \in SUBSET ListedIds}

ArchivedOldTask == Put(EmptyMap, 9, archive(Task(9, "Call mom", "urgent", 0), 0))

InitList ==
    /\ now = 1
    /\ tasks \in ListedStores
    /\ archived_tasks = ArchivedOldTask
    /\ storage_file = StartFile(tasks)
    /\ archive_file = StartFile(archived_tasks)
    /\ pc = Idle
    /\ ret = NoRet
    /\ faults = 0
    /\ minted = {}
    /\ calls = 0
    /\ InitSyncVars

\* A call of storage.list_tasks(completed, show_archived).
ListCall ==
    /\ pc = Idle
    /\ calls = 0
    /\ calls' = 1
    /\ \E completed \in CompletedFilters, show_archived \in BOOLEAN :
        ret' = [op |-> "list", id |-> NoId,
                result |-> list_tasks(tasks, completed, show_archived),
                completed |-> completed, show_archived |-> show_archived]
    /\ UNCHANGED <<now, tasks, archived_tasks, storage_file, archive_file, pc,
                   faults, minted>>
    /\ UNCHANGED syncVars

NextList == ListCall

SpecList == InitList /\ [][NextList]_vars

----------------------------------------------------------------------------
(* The file import command *)

FileRet(result, count) ==
    [op |-> "import_file", id |-> NoId, result |-> result, count |-> count]

\* The import command: shutil.copy(input_file, storage.storage_file), then
\* storage.load_tasks() on the mapping as it is, then the success message with
\* len(storage.tasks).  A copy that raises (no such input file) is reported as
\* an error; load_tasks catches whatever it raises itself.
import_tasks ==
    /\ pc = Idle
    /\ calls < MaxCalls
    /\ calls' = calls + 1
    /\ \E input \in StartupFiles :
        IF input.state = "absent"
        THEN /\ ret' = FileRet("error", 0)
             /\ UNCHANGED <<tasks, storage_file>>
        ELSE /\ storage_file' = input
             /\ tasks' = load_tasks(tasks, storage_file')
             /\ ret' = FileRet("ok", Cardinality(DOMAIN tasks'))
    /\ UNCHANGED <<now, archived_tasks, archive_file, pc, faults, minted>>
    /\ UNCHANGED syncVars

NextFileImport ==
    \/ Tick
    \/ add_task
    \/ import_tasks

SpecFileImport == Init /\ [][NextFileImport]_vars

----------------------------------------------------------------------------
(* The sync create and sync update commands, over stores with archived tasks *)

MaxPushes == 1

\* The stores the commands run on: up to two active tasks without a due date,
\* medium or urgent, completed or not; no archived task, one under an id of
\* its own, or one under the id of an active task.
PushedStores ==
    {m \in ListedStores :
        /\ DOMAIN m \subseteq {0, 1}
        /\ \A id \in DOMAIN m :
              m[id].due_date = NoTime /\ m[id].priority \in {"medium", "urgent"}}

PushedArchives ==
    {EmptyMap, ArchivedOldTask, Put(EmptyMap, OldTask.id, archive(OldTask, 0))}

InitPush ==
    /\ now = 1
    /\ tasks \in PushedStores
    /\ archived_tasks \in PushedArchives
    /\ storage_file = StartFile(tasks)
    /\ archive_file = StartFile(archived_tasks)
    /\ pc = Idle
    /\ ret = NoRet
    /\ faults = 0
    /\ minted = {}
    /\ calls = 0
    /\ sync_file \in StartSyncFiles
    /\ sync_info = _load_sync_info(sync_file)
    /\ spc = SIdle
    /\ sret = NoSRet

\* The sync create command up to the request: the tasks it gets from
\* storage.list_tasks(show_archived=True) are handed to sync_to_rubis, unless
\* there are none.
create_sync ==
    /\ spc = SIdle
    /\ calls < MaxPushes
    /\ calls' = calls + 1
    /\ LET handed == list_tasks(tasks, <<>>, TRUE) IN
       IF handed = <<>>
       THEN /\ sret' = SRet("sync_create", "no_tasks", NoReturned, <<>>)
            /\ UNCHANGED spc
       ELSE /\ \E public \in BOOLEAN : SendCreate("sync_create", public)
            /\ sret' = SRet("sync_create", "handed", NoReturned, handed)
    /\ UNCHANGED <<sync_info, sync_file, faults>>
    /\ StoreUntouched

\* The sync update command up to the request: it stops when there is no current
\* scrap id, and when there are no tasks; else the tasks it gets from
\* storage.list_tasks(show_archived=True) are handed to update_sync.
update_sync_cmd ==
    /\ spc = SIdle
    /\ calls < MaxPushes
    /\ calls' = calls + 1
    /\ LET handed == list_tasks(tasks, <<>>, TRUE) IN
       IF sync_info.current_scrap.id = None
       THEN /\ sret' = SRet("sync_update", "no_sync", NoReturned, <<>>)
            /\ UNCHANGED spc
       ELSE IF handed = <<>>
       THEN /\ sret' = SRet("sync_update", "no_tasks", NoReturned, <<>>)
            /\ UNCHANGED spc
       ELSE /\ SendUpdate
            /\ sret' = SRet("sync_update", "handed", NoReturned, handed)
    /\ UNCHANGED <<sync_info, sync_file, faults>>
    /\ StoreUntouched

NextPush ==
    \/ create_sync
    \/ update_sync_cmd
    \/ client_returns
    \/ request_times_out

SpecPush == InitPush /\ [][NextPush]_vars

---------------------------------------------------------------------------
(* Properties of the store, the commands and the reconciler *)

StoreOps == {"add", "update", "delete", "archive", "restore", "copy", "snooze"}

\* C1: no task id is a key of both the active and the archived mapping, and a
\* stored task has archived = true exactly when its id is a key of the archived
\* mapping and not of the active one.
C1_PartitionsDisjoint ==
    /\ DOMAIN tasks \cap DOMAIN archived_tasks = {}
    /\ \A id \in DOMAIN tasks : ~tasks[id].archived
    /\ \A id \in DOMAIN archived_tasks : archived_tasks[id].archived

\* C2: between the two flushes of archive(id) and of restore(id), the moved
\* task is in at least one of the two files on disk (the files held the store
\* when the call began, and no write has failed).
C2_NeverAbsentFromBothFiles ==
    (pc.at \in {"archive_flush", "restore_flush"} /\ pc.flushed /\ faults = 0)
        => pc.id \in FileIds(storage_file) \cup FileIds(archive_file)

\* A step in which the sync import command, run with --merge, has merged the
\* fetched sequence sret.tasks into the active mapping.
MergeReturned ==
    /\ ImportPending
    /\ sret'.result = "imported"
    /\ ret' = Ret("import_merge", NoId, "ok")

\* C3, as stated: after a merge of the imported sequence I into the active
\* mapping L, the active mapping holds L's tasks plus exactly the tasks of I
\* whose id was not a key of L, and every task of L is as it was.
C3_MergeIsUnionOfAll ==
    [][MergeReturned =>
          LET I == sret.tasks IN
          /\ Values(tasks') =
                Values(tasks) \cup {I[i] : i \in {j \in DOMAIN I : I[j].id \notin DOMAIN tasks}}
          /\ \A id \in DOMAIN tasks : id \in DOMAIN tasks' /\ tasks'[id] = tasks[id]]_vars

\* The first task of I with each id.
FirstOfId(I) == {I[i] : i \in {j \in DOMAIN I : \A k \in 1..(j - 1) : I[k].id # I[j].id}}

\* C3, amended: after a merge of the imported sequence I into the active
\* mapping L, the active mapping holds L's tasks plus, for each id of I that was
\* not a key of L, the first task of I with that id; every task of L is as it was.
C3_MergeIsUnionById ==
    [][MergeReturned =>
          LET I == sret.tasks IN
          /\ Values(tasks') =
                Values(tasks) \cup {t \in FirstOfId(I) : t.id \notin DOMAIN tasks}
          /\ DOMAIN tasks' = DOMAIN tasks \cup {I[i].id : i \in DOMAIN I}
          /\ \A id \in DOMAIN tasks : tasks'[id] = tasks[id]]_vars

\* C3's case: a merge has returned for a fetched sequence that holds the id of
\* a local task under another title and two tasks with one new id.
C3_Witness ==
    /\ ret = Ret("import_merge", NoId, "ok")
    /\ sret.result = "imported"
    /\ Len(sret.tasks) = 2
    /\ sret.tasks[1].id = sret.tasks[2].id
    /\ sret.tasks[1] # sret.tasks[2]
    /\ sret.tasks[1].id \in DOMAIN tasks
    /\ OldTask.id \in DOMAIN tasks

\* C4: every sync_create call that ends, however the remote create ended, has
\* set last_sync to the current time, made the record it returns the current
\* Sync Record, and put exactly that one new entry at the head of history.
C4_CreateAlwaysRecords ==
    [][(spc.at = "create_wait" /\ spc'.at = "idle") =>
          /\ sync_info'.last_sync = now
          /\ ReturnedOf(sync_info'.current_scrap) = sret'.record
          /\ sync_info'.history =
                Take(<<sync_info'.current_scrap>> \o sync_info.history, HistoryCap)]_vars

\* C5: when the complete (uncomplete) command ends on an active task whose flag
\* differed from the target, it has not ended in an unhandled error and the
\* active file holds the task with the new flag, completed_at set (cleared).
C5_CompletionPersisted ==
    (ret.op \in {"complete", "uncomplete"} /\ ret.result \notin {"not_found", "already"}) =>
        /\ ret.result = "ok"
        /\ \E t \in FileTasks(storage_file) :
              /\ t.id = ret.id
              /\ t.completed = (ret.op = "complete")
              /\ (t.completed_at # NoTime) = (ret.op = "complete")

\* C6: when no disk write has failed, after each of add, update, delete,
\* archive, restore, copy and snooze has returned its task, the active file holds
\* exactly the tasks of the active mapping and the archived file exactly those
\* of the archived mapping.
C6_FlushedOnReturn ==
    (pc = Idle /\ faults = 0 /\ ret.op \in StoreOps /\ ret.result = "ok") => InSync

\* C6's case: a task was completed in memory without a flush, and the snooze
\* of it that followed has returned with no write failed.
C6_Witness ==
    /\ pc = Idle
    /\ faults = 0
    /\ ret = Ret("snooze", 0, "ok")
    /\ tasks[0].completed
    /\ InSync

\* C7: a task constructed without an explicit id, by add or by copy, gets an id
\* that no earlier such task got and that is not a key of the active mapping.
C7_FreshIdsDistinct ==
    [][(calls' = calls + 1 /\ ret'.op \in {"add", "copy"} /\ ret'.result = "ok") =>
          /\ ret'.id \notin minted
          /\ ret'.id \notin DOMAIN tasks]_vars

\* C8: once the store is constructed, a mapping whose file could not be fully
\* deserialized is empty.
C8_CorruptFileLoadsEmpty ==
    (ret.op = "init") =>
        /\ ret.result = "ok"
        /\ ~FullyDeserializable(storage_file) => tasks = EmptyMap
        /\ ~FullyDeserializable(archive_file) => archived_tasks = EmptyMap

\* C9: no store or reconciler operation (add, update, delete, archive, restore,
\* copy, snooze, sync_create, sync_update, import, clear) ends by raising to its
\* caller.
C9_NoCallRaises ==
    /\ ret.op \in StoreOps => ret.result # "raised"
    /\ sret.result # "raised"

\* C10: every sync_create, sync_update and import call that is waiting for the
\* remote service eventually returns.
C10_CallsReturn == (spc.at # "idle") ~> (spc.at = "idle")

\* A step in which sync_to_rubis ends after create_scrap reported a connection
\* failure (a requests.RequestException, a timeout included).
CreateFailedOffline ==
    \E id \in ScrapIds, w \in WriteOutcomes : CreateDone("request_exception", id, w)

\* C11: when the remote client reports a connection failure, sync_create
\* returns without raising; the record it returns and the current Sync Record
\* have null view and raw urls and a non-null owner key; history has exactly
\* that one new entry at its head; and the metadata file holds all of it when
\* no write has failed.
C11_OfflineCreateRecorded ==
    [][CreateFailedOffline =>
          /\ sret'.result = "returned"
          /\ sret'.record.url = NoUrl /\ sret'.record.raw_url = NoUrl
          /\ sret'.record.owner_key # None
          /\ sync_info'.current_scrap.url = NoUrl
          /\ sync_info'.current_scrap.raw_url = NoUrl
          /\ sync_info'.current_scrap.owner_key # None
          /\ sync_info'.history =
                Take(<<sync_info'.current_scrap>> \o sync_info.history, HistoryCap)
          /\ faults' = 0 =>
                /\ sync_file' = JsonSyncFile(sync_info')
                /\ sret'.record = ReturnedOf(sync_info'.current_scrap)]_vars

\* C11's case: a sync_create whose remote create failed has returned, and the
\* offline record is current, at the head of history and in the file.
C11_Witness ==
    /\ sret.op = "sync_create"
    /\ sret.result = "returned"
    /\ sret.record.url = NoUrl
    /\ sret.record.owner_key = OfflineOwnerKey
    /\ sync_info.current_scrap.owner_key = OfflineOwnerKey
    /\ Len(sync_info.history) = 2
    /\ sync_info.history[1] = sync_info.current_scrap
    /\ sync_file = JsonSyncFile(sync_info)

\* History holds at most 10 records, the most recent first.
HistoryBounded ==
    /\ Len(sync_info.history) <= HistoryCap
    /\ \A i, j \in DOMAIN sync_info.history :
          i < j => sync_info.history[i].time >= sync_info.history[j].time

\* A step in which sync_to_rubis ends having recorded a create.
CreateRecorded ==
    \E o \in {"ok", "request_exception"}, id \in ScrapIds, w \in WriteOutcomes :
        CreateDone(o, id, w)

\* C12: history always holds at most 10 entries ordered most-recent-first, and
\* a create puts its record at the head and keeps the 9 most recent of the old
\* entries after it: when the old history held 10, its last entry is dropped.
C12_HistoryCapped ==
    /\ []HistoryBounded
    /\ [][CreateRecorded =>
            LET h == sync_info.history IN
            sync_info'.history =
                <<sync_info'.current_scrap>> \o
                SubSeq(h, 1, IF Len(h) < HistoryCap THEN Len(h) ELSE HistoryCap - 1)]_vars

\* C12's case: two creates of this run are at the head of a full history, so
\* an entry of the history the run started from has been dropped.
C12_Witness ==
    /\ Len(sync_info.history) = HistoryCap
    /\ sync_info.history[1].time >= 1
    /\ sync_info.history[2].time >= 1
    /\ sync_info.history[3] = OldScrap
    /\ sync_info.history[HistoryCap] = OldOfflineScrap

\* A step in which update_sync ends its push after replace_scrap_content
\* reported a failure (a requests.RequestException, a timeout included).
ReplaceFailedOffline == \E w \in WriteOutcomes : ReplaceDone("request_exception", w)

\* What C13 says of the step that ends the push: last_sync is advanced to the
\* current time, the current record is as it was, and the call returns that
\* record's stored view and raw urls, which are not null.
StoredUrlsReturned ==
    /\ sync_info'.last_sync = now
    /\ sync_info'.current_scrap = sync_info.current_scrap
    /\ spc' = SIdle
    /\ sret'.op = "sync_update" /\ sret'.result = "returned"
    /\ sret'.record = ReturnedOf(sync_info.current_scrap)
    /\ sret'.record.url # NoUrl /\ sret'.record.raw_url # NoUrl

\* C13, as stated: when a current Sync Record exists and the remote client
\* reports a failure on sync_update, the call returns the stored urls, advances
\* last_sync and leaves the current record as it was.
C13_FailedUpdateAlwaysKeepsRecord ==
    [][ReplaceFailedOffline => StoredUrlsReturned]_vars

\* C13, amended: when a current Sync Record exists, the remote client reports a
\* failure on sync_update and no file write has failed, the call returns the
\* stored urls, advances last_sync, leaves the current record as it was, and
\* the metadata file holds the refreshed metadata.
C13_FailedUpdateKeepsRecord ==
    [][(ReplaceFailedOffline /\ faults' = 0) =>
          /\ StoredUrlsReturned
          /\ sync_file' = JsonSyncFile(sync_info')]_vars

\* C13's case: a sync_update over the record of an earlier run has returned
\* that record's urls after the clock moved on, the record unchanged.
C13_Witness ==
    /\ sret.op = "sync_update"
    /\ sret.result = "returned"
    /\ sret.record = ReturnedOf(OldScrap)
    /\ sync_info.current_scrap = OldScrap
    /\ sync_info.last_sync = now
    /\ now = 1
    /\ faults = 0

\* C14: while sync_update pushes to the existing remote object, history does
\* not change, whether the push succeeds or the client reports a failure; and
\* history gets a new entry only at the end of a remote create.
C14_UpdateLeavesHistory ==
    [][/\ spc.at = "replace_wait" => sync_info'.history = sync_info.history
       /\ (sync_info'.history # sync_info.history /\ sync_info'.history # <<>>)
             => spc.at = "create_wait"]_vars

\* C14's case: a sync_update has pushed to the scrap of an earlier run and
\* returned at a later time, and history still holds that one record.
C14_Witness ==
    /\ sret.op = "sync_update"
    /\ sret.result = "returned"
    /\ sret.record.id = OldScrap.id
    /\ sync_info.last_sync = 2
    /\ sync_info.history = <<OldScrap>>
    /\ calls = 1

\* There is no current Sync Record: never synced, cleared, or the last create
\* was an offline one.
NoCurrentScrap ==
    sync_info.current_scrap.id = None \/ sync_info.current_scrap.owner_key = None

\* C15: sync_update called when there is no current Sync Record issues a remote
\* create, not a replace, and when the call ends the record it returns is the
\* current one and is at the head of history.
C15_UpdateWithoutRecordCreates ==
    [][/\ (spc = SIdle /\ spc'.op = "sync_update" /\ spc'.at # "idle" /\ NoCurrentScrap)
             => spc'.at = "create_wait"
       /\ (spc.op = "sync_update" /\ spc.at = "create_wait" /\ NoCurrentScrap
             /\ spc'.at = "idle")
             => /\ sret'.op = "sync_update" /\ sret'.result = "returned"
                /\ sret'.record = ReturnedOf(sync_info'.current_scrap)
                /\ sync_info'.history =
                      Take(<<sync_info'.current_scrap>> \o sync_info.history, HistoryCap)]_vars

\* A step in which the update path of update_sync raises: the remote replace
\* call raises something the client does not catch, or the metadata file
\* cannot be written.
UpdateErrored ==
    \/ \E w \in WriteOutcomes : ReplaceDone("other_exception", w)
    \/ \E o \in {"ok", "request_exception"}, w \in {"open_failed", "write_failed"} :
          ReplaceDone(o, w)

\* C16: sync_update never ends by raising; when its update path raises, it
\* goes on to a remote create without having returned, and a sync_update that
\* ends in a create returns what sync_to_rubis returns: the created record or
\* the handler's fallback record.
C16_UpdateFallsBackToCreate ==
    /\ [](sret.op = "sync_update" => sret.result = "returned")
    /\ [][/\ UpdateErrored =>
                /\ spc'.at = "create_wait" /\ spc'.op = "sync_update"
                /\ ~spc'.public
                /\ sret' = sret
          /\ (spc.op = "sync_update" /\ spc.at = "create_wait" /\ spc'.at = "idle") =>
                /\ sret'.op = "sync_update" /\ sret'.result = "returned"
                /\ sret'.record \in {ReturnedOf(sync_info'.current_scrap),
                                     FallbackReturned(spc.access_key)}]_vars

\* C16's case: the one call of the run was a sync_update over the record of an
\* earlier run, and it returned a newly created record, now current and at the
\* head of history before the old one.
C16_Witness ==
    /\ calls = 1
    /\ sret.op = "sync_update"
    /\ sret.result = "returned"
    /\ sret.record = ReturnedOf(sync_info.current_scrap)
    /\ sync_info.current_scrap # OldScrap
    /\ sync_info.history = <<sync_info.current_scrap, OldScrap>>

\* A step in which get_tasks_from_scrap ends after the fetch or the parse of
\* the remote content raised.
FetchFailed ==
    \E o \in {"request_exception", "other_exception"}, I \in Payloads : FetchDone(o, I)

\* C17: when fetching or parsing the remote content fails, get_tasks_from_scrap
\* returns the empty sequence without raising; and the sync import command, in
\* merge and in replace mode, given an empty result ends with "no tasks" and
\* leaves both mappings and both task files as they were.
C17_FailedImportChangesNothing ==
    [][/\ FetchFailed => (sret'.result = "returned" /\ sret'.tasks = <<>>)
       /\ (ImportPending /\ sret.tasks = <<>> /\ sret'.result = "imported") =>
             /\ ret'.result = "no_tasks"
             /\ UNCHANGED <<tasks, archived_tasks, storage_file, archive_file>>]_vars

\* C17's case: the import command, in replace mode, has ended on an empty
\* result and the task of the earlier run is still in the mapping and the file.
C17_Witness ==
    /\ sret.result = "imported"
    /\ sret.tasks = <<>>
    /\ ret = Ret("import_replace", NoId, "no_tasks")
    /\ OldTask.id \in DOMAIN tasks
    /\ tasks[OldTask.id] = OldTask
    /\ storage_file = Written(tasks)

\* A step in which the sync import command has merged or replaced with the
\* fetched sequence sret.tasks.
ImportReturned ==
    /\ ImportPending
    /\ sret'.result = "imported"
    /\ ret'.result = "ok"

AllOk(I) == [i \in 1..Len(I) |-> "ok"]

\* C18: applying merge again with the same imported sequence to the store a
\* merge has left gives the same active mapping and, no write having failed,
\* the same active file; likewise for replace.
C18_ImportIdempotent ==
    [][ImportReturned =>
          LET I == sret.tasks
              again == IF ret'.op = "import_merge"
                       THEN MergeLoop(tasks', storage_file', I, AllOk(I))
                       ELSE [m |-> DictOf(EmptyMap, I), f |-> storage_file', n |-> 0]
          IN /\ again.m = tasks'
             /\ faults' = 0 => save_tasks(again.m, again.f, "ok") = storage_file']_vars

\* C18's case: a merge has returned that added a task next to a local task
\* whose id the payload also carried, under another title.
C18_Witness ==
    /\ ret = Ret("import_merge", NoId, "ok")
    /\ sret.result = "imported"
    /\ Len(sret.tasks) = 2
    /\ sret.tasks[1].id = OldTask.id /\ sret.tasks[1] # OldTask
    /\ sret.tasks[2].id # OldTask.id
    /\ tasks = Put(Put(EmptyMap, OldTask.id, OldTask), sret.tasks[2].id, sret.tasks[2])
    /\ faults = 0

\* A step in which the sync import command has replaced the active mapping
\* with the fetched sequence sret.tasks.
ReplaceReturned ==
    /\ ImportPending
    /\ sret'.result = "imported"
    /\ ret' = Ret("import_replace", NoId, "ok")

\* What C19 says besides the content of the mapping and the flush: each task
\* is keyed by its id, and the archived mapping and its file are unchanged.
ReplaceFrame ==
    /\ \A k \in DOMAIN tasks' : tasks'[k].id = k
    /\ UNCHANGED <<archived_tasks, archive_file>>

\* C19, as stated: after a replace import with a non-empty imported sequence
\* the active mapping holds exactly the imported tasks, keyed by their ids, the
\* active file holds that mapping, and the archived mapping is unchanged.
C19_ReplaceHoldsAllImported ==
    [][ReplaceReturned =>
          /\ Values(tasks') = {sret.tasks[i] : i \in DOMAIN sret.tasks}
          /\ ReplaceFrame
          /\ Holds(storage_file', tasks')]_vars

\* The last task of I with each id.
LastOfId(I) ==
    {I[i] : i \in {j \in DOMAIN I : \A k \in (j + 1)..Len(I) : I[k].id # I[j].id}}

\* C19, amended: after a replace import with a non-empty imported sequence the
\* active mapping holds, for each id of the payload, the last imported task
\* with that id, and nothing else; the archived mapping is unchanged; and the
\* active file holds the new mapping when no file write has failed.
C19_ReplaceHoldsLastOfEachId ==
    [][ReplaceReturned =>
          /\ Values(tasks') = LastOfId(sret.tasks)
          /\ DOMAIN tasks' = {sret.tasks[i].id : i \in DOMAIN sret.tasks}
          /\ ReplaceFrame
          /\ faults' = 0 => Holds(storage_file', tasks')]_vars

\* C19's case: a replace has returned for two imported tasks with one id that
\* is not the local task's id; the mapping and the file hold the second only.
C19_Witness ==
    /\ ret = Ret("import_replace", NoId, "ok")
    /\ sret.result = "imported"
    /\ Len(sret.tasks) = 2
    /\ sret.tasks[1].id = sret.tasks[2].id
    /\ sret.tasks[1] # sret.tasks[2]
    /\ sret.tasks[1].id # OldTask.id
    /\ tasks = Put(EmptyMap, sret.tasks[2].id, sret.tasks[2])
    /\ storage_file = Written(tasks)
    /\ archived_tasks = Put(EmptyMap, OldTask.id, archive(OldTask, 0))

NotFoundOps == {"update", "archive", "copy", "snooze", "restore"}

\* C20: update, archive and snooze on an id that is not a key of the active
\* mapping, and restore on an id that is not a key of the archived mapping,
\* report not-found; a copy that does not report not-found has copied a task of
\* the active mapping; and a call that reports not-found leaves both mappings
\* and both task files exactly as they were.
C20_NotFoundHasNoEffect ==
    [][(pc = Idle /\ calls' = calls + 1 /\ ret'.op \in NotFoundOps) =>
          /\ (ret'.op \in {"update", "archive", "snooze"} /\ ret'.id \notin DOMAIN tasks)
                => ret'.result = "not_found"
          /\ (ret'.op = "restore" /\ ret'.id \notin DOMAIN archived_tasks)
                => ret'.result = "not_found"
          /\ (ret'.op = "copy" /\ ret'.result # "not_found")
                => \E src \in DOMAIN tasks, due \in DueInputs :
                      tasks'[ret'.id] = CopyOf(tasks[src], ret'.id, due)
          /\ ret'.result = "not_found"
                => /\ UNCHANGED <<tasks, archived_tasks, storage_file, archive_file>>
                   /\ pc' = Idle]_vars

\* C20's case: after a complete command left an unflushed change in the active
\* mapping, a snooze of an id that is in neither mapping has reported
\* not-found, and the file is still behind the mapping.
C20_Witness ==
    /\ ret = Ret("snooze", 9, "not_found")
    /\ calls = 2
    /\ OldTask.id \in DOMAIN tasks
    /\ tasks[OldTask.id].completed
    /\ storage_file = Written(Put(EmptyMap, OldTask.id, OldTask))
    /\ faults = 0

\* A step of a store call that reports success.
StoreCallOk == pc = Idle /\ calls' = calls + 1 /\ ret'.result = "ok"

\* C21: a store mutation is in the in-memory mapping whether or not its flush
\* succeeded (an added or copied task is under its id, an updated or snoozed
\* id is still a key, a deleted id is gone), and every step of one flush that
\* leaves a task file changed and readable leaves it holding the complete
\* current content of its mapping, so a mutation whose own flush failed is on
\* disk after the next flush that succeeds.  (The merging import flushes once
\* per task within one step; its flushes are the same save_tasks.)
C21_NextFlushWritesAll ==
    [][/\ (StoreCallOk /\ ret'.op \in {"add", "copy"})
             => (ret'.id \in DOMAIN tasks' /\ tasks'[ret'.id].id = ret'.id)
       /\ (StoreCallOk /\ ret'.op \in {"update", "snooze"})
             => ret'.id \in DOMAIN tasks'
       /\ (StoreCallOk /\ ret'.op = "delete")
             => ret'.id \notin DOMAIN tasks'
       /\ (storage_file' # storage_file /\ storage_file'.state = "json"
              /\ ret'.op # ImportName(TRUE))
             => Holds(storage_file', tasks')
       /\ (archive_file' # archive_file /\ archive_file'.state = "json")
             => Holds(archive_file', archived_tasks')]_vars

\* C21's case: two tasks were added, the flush of the first add failed, the
\* flush of the second succeeded, and the file holds both new tasks.
C21_Witness ==
    /\ calls = 2
    /\ faults = 1
    /\ ret.op = "add"
    /\ Cardinality(minted) = 2
    /\ minted \subseteq DOMAIN tasks
    /\ minted \subseteq FileIds(storage_file)
    /\ Holds(storage_file, tasks)

\* A step of clear_sync_info.
ClearStep == spc = SIdle /\ calls' = calls + 1 /\ sret'.op = "clear"

SameButArchived(t, u) ==
    [t EXCEPT !.archived = FALSE, !.archived_at = NoTime] =
        [u EXCEPT !.archived = FALSE, !.archived_at = NoTime]

\* C23: whenever archive(id) has moved an active task, the restore(id) that
\* follows puts it back in the active mapping and out of the archived one with
\* every field but archived and archived_at as before the archive; whenever
\* restore(id) has moved an archived task, the archive(id) that follows, at
\* any time, puts it back in the archived mapping and out of the active one
\* with every field but archived and archived_at as before the restore.
C23_ArchiveRestoreRoundTrip ==
    [][/\ (pc = Idle /\ pc'.at = "archive_flush") =>
             LET id == pc'.id
                 r == RestoreMove(Stores', id)
             IN /\ id \in DOMAIN tasks /\ id \in DOMAIN archived_tasks'
                /\ id \in DOMAIN r.active /\ id \notin DOMAIN r.archived
                /\ SameButArchived(r.active[id], tasks[id])
       /\ (pc = Idle /\ pc'.at = "restore_flush") =>
             LET id == pc'.id IN
             /\ id \in DOMAIN archived_tasks /\ id \in DOMAIN tasks'
             /\ \A at \in Times :
                   LET r == ArchiveMove(Stores', id, at) IN
                   /\ id \in DOMAIN r.archived /\ id \notin DOMAIN r.active
                   /\ SameButArchived(r.archived[id], archived_tasks[id])]_vars

\* C23's case: the task of an earlier run was archived and then restored; it
\* is in the active mapping only, with the fields it had.
C23_Witness ==
    /\ calls = 2
    /\ ret = Ret("restore", OldTask.id, "ok")
    /\ pc = Idle
    /\ tasks = Put(EmptyMap, OldTask.id, OldTask)
    /\ archived_tasks = EmptyMap
    /\ archive_file = Written(EmptyMap)
    /\ storage_file = Written(tasks)

\* C24 as stated: a copy that succeeds has added, under an id that is not the
\* source's, a task with the source's title, priority and due date (or the
\* due date given), not completed and not archived, and has left the source
\* task as it was.
C24_CopyAddsDistinctTask ==
    [][(StoreCallOk /\ ret'.op = "copy") =>
          \E src \in DOMAIN tasks, due \in DueInputs :
             /\ ret'.id # src
             /\ ret'.id \in DOMAIN tasks'
             /\ tasks'[ret'.id] = CopyOf(tasks[src], ret'.id, due)
             /\ ~tasks'[ret'.id].completed /\ tasks'[ret'.id].completed_at = NoTime
             /\ ~tasks'[ret'.id].archived /\ tasks'[ret'.id].archived_at = NoTime
             /\ tasks'[ret'.id].title = tasks[src].title
             /\ tasks'[ret'.id].priority = tasks[src].priority
             /\ tasks'[ret'.id].due_date = (IF due # NoTime THEN due ELSE tasks[src].due_date)
             /\ src \in DOMAIN tasks' /\ tasks'[src] = tasks[src]]_vars

\* C26: a snooze that succeeds leaves the task under its id with due date
\* old due date + duration, or current time + duration when it had none, and
\* every other field and every other task as before; save_tasks has run on
\* the new mapping, and when no write has failed the file holds the new due
\* date.
C26_SnoozeAddsDuration ==
    [][(StoreCallOk /\ ret'.op = "snooze") =>
          LET id == ret'.id IN
          /\ id \in DOMAIN tasks
          /\ \E delta \in SnoozeDeltas :
                LET base == IF tasks[id].due_date = NoTime THEN now
                            ELSE tasks[id].due_date
                IN tasks' = [tasks EXCEPT ![id].due_date = base + delta]
          /\ \E w \in WriteOutcomes :
                storage_file' = save_tasks(tasks', storage_file, w)
          /\ faults' = 0 => Holds(storage_file', tasks')
          /\ UNCHANGED <<archived_tasks, archive_file>>]_vars

\* C26's case: the task of an earlier run, which had no due date, was snoozed
\* twice at time 1 by one unit: the first snooze counted from the current time,
\* the second from the due date the first had set, and the file holds the
\* result.
C26_Witness ==
    /\ calls = 2
    /\ now = 1
    /\ faults = 0
    /\ ret = Ret("snooze", OldTask.id, "ok")
    /\ tasks = Put(EmptyMap, OldTask.id, [OldTask EXCEPT !.due_date = 3])
    /\ storage_file = Written(tasks)

HeadIsCurrent(info) ==
    \/ info.history = <<>> /\ info.current_scrap.id = None
    \/ info.history # <<>> /\ info.history[1] = info.current_scrap

\* C29: in every state, the metadata in memory, and the metadata file when
\* it is readable, has an empty history and a null current id, or has the
\* current Sync Record as its first history entry.
C29_HeadOfHistoryIsCurrent ==
    /\ HeadIsCurrent(sync_info)
    /\ sync_file.state = "json" => HeadIsCurrent(sync_file.info)

\* C29's case: starting with no record, two different creates were recorded
\* and an update refreshed the second; the history has both records and its
\* head is the current one.
C29_Witness ==
    /\ calls = 3
    /\ sret.op = "sync_update"
    /\ Len(sync_info.history) = 2
    /\ sync_info.history[1] # sync_info.history[2]
    /\ sync_info.history[1] = sync_info.current_scrap
    /\ sync_info.current_scrap.id # None
    /\ sync_file = JsonSyncFile(sync_info)
    /\ OldScrap \notin {sync_info.history[i] : i \in 1..2}

\* The order C25 names: higher priority first; within a priority, earlier due
\* date first, and a task without a due date after every task with one.
ListedBefore(t, u) ==
    \/ PriorityRank(t.priority) < PriorityRank(u.priority)
    \/ /\ t.priority = u.priority
       /\ \/ u.due_date = NoTime
          \/ t.due_date # NoTime /\ t.due_date <= u.due_date

C28_FileImportReplacesMapping ==
    [][(pc = Idle /\ calls' = calls + 1 /\ ret'.op = "import_file"
          /\ ret'.result = "ok" /\ FullyDeserializable(storage_file')) =>
          /\ Values(tasks') = FileTasks(storage_file')
          /\ Holds(storage_file', tasks')
          /\ \A id \in DOMAIN tasks :
                id \notin FileIds(storage_file') => id \notin DOMAIN tasks']_vars

\* A step in which a sync command hands its task list to the reconciler.
Handed == spc = SIdle /\ calls' = calls + 1 /\ sret'.result = "handed"

\* C30: the list a sync create or sync update command hands to the reconciler
\* holds each task of the active mapping once and nothing else; list_tasks
\* gives that same list with show_archived true and with show_archived false,
\* whatever the completion filter; no task of the archived mapping is in it;
\* and a command stops for want of tasks only when the active mapping is
\* empty.
C30_PushedIsActiveMapping ==
    [][/\ Handed =>
             LET pushed == sret'.tasks IN
             /\ {pushed[i] : i \in DOMAIN pushed} = Values(tasks)
             /\ Len(pushed) = Cardinality(DOMAIN tasks)
             /\ pushed = list_tasks(tasks, <<>>, TRUE)
             /\ pushed = list_tasks(tasks, <<>>, FALSE)
             /\ \A c \in CompletedFilters :
                   list_tasks(tasks, c, TRUE) = list_tasks(tasks, c, FALSE)
             /\ \A i \in DOMAIN pushed : pushed[i] \notin Values(archived_tasks)
       /\ (spc = SIdle /\ calls' = calls + 1 /\ sret'.result = "no_tasks")
             => tasks = EmptyMap]_vars

\* C30's case: with an archived task in the store, the sync update command has
\* handed its two active tasks, one of them completed, to the reconciler, and
\* the replace request is pending.
C30_Witness ==
    /\ sret.op = "sync_update"
    /\ sret.result = "handed"
    /\ spc.at = "replace_wait"
    /\ archived_tasks = ArchivedOldTask
    /\ Len(sret.tasks) = 2
    /\ \E i \in 1..2 : sret.tasks[i].completed
    /\ \A i \in 1..2 : sret.tasks[i].id \in DOMAIN tasks

====
